---- MODULE Spec2Model ----
(***************************************************************************)
(* Package tracking service: the package and recipient collections, the    *)
(* tracking-number allocator and the bulk routes, as implemented by the    *)
(* Express routers over the mongoose models.                               *)
(*                                                                         *)
(* A request handler is one process slot; it is split into one action per  *)
(* awaited storage call, so that handlers interleave exactly where the     *)
(* event loop lets them.  Each storage call (findOne, findOneAndUpdate,    *)
(* insertMany, deleteMany ...) is atomic in the store.                     *)
(***************************************************************************)
EXTENDS Integers, Sequences, FiniteSets, TLC

VARIABLES
    packages,    \* the Package_details collection: a set of documents
    recipients,  \* the Recipient collection: a set of documents
    nextId,      \* next fresh _id of a package document
    nextRid,     \* next fresh _id of a recipient document
    pc,          \* per request slot: position inside its handler
    req,         \* per request slot: the request being served
    loc,         \* per request slot: the handler's local variables
    resp,        \* per request slot: the response sent
    alone,       \* history: no other slot stepped since this request began
    pre,         \* history: the collections when this request began
    ins,         \* history: _ids of the package documents this request inserted
    race,        \* history: the Create this Create raced with on the allocator
    issued       \* history: the highest TrackingNumber handed out so far

vars == <<packages, recipients, nextId, nextRid, pc, req, loc, resp, alone, pre, ins, race, issued>>

----------------------------------------------------------------------------
(* Bounds of the model *)

MaxDocs == 3        \* package documents ever inserted, requests served in turn
MaxDocsConc == 2    \* package documents ever inserted, requests interleaved
MaxDocsAlloc == 4   \* package documents ever inserted, creation and deletion alone
MaxRecips == 1      \* recipient documents ever inserted beside packages
MaxContacts == 2    \* recipient documents ever inserted, recipient routes alone
MaxBatch == 2       \* longest array in a bulk request

Procs == {"r1", "r2"}
NoProc == "none"

----------------------------------------------------------------------------
(* Values *)

\* A document without a TrackingNumber field (the schema does not require it).
NoTN == -1
\* undefined + 1 in the allocator when the last package has no TrackingNumber.
NaN == -2

\* Decimal numbers are held in thousandths: 50 is 50000, 50.25 is 50250.

\* The enum with its last value hyphenated.
StatusEnumHyphenated == {"pending", "in-transit", "delivered", "not-delivered"}
StatusEnum == {"pending", "in-transit", "delivered", "not delivered"}

\* ID_proof.contentType enum, and the limit of ID_proof.size: 5 * 1024 * 1024.
ProofTypes == {"image/jpeg", "image/png", "image/gif", "image/webp", "application/pdf"}
MaxProofSize == 5242880

\* An ID_proof sub-field that is not there (left out of a body, or unset in
\* a stored document): "none" for data and contentType, NoSize for size.
\* data is otherwise "null", "empty" (a buffer of length 0) or the name of a
\* blob.
NoSize == -1
NoProof == [data |-> "none", contentType |-> "none", size |-> NoSize]
\* The schema defaults: Buffer.alloc(0), 'application/pdf', 0.
DefaultProof == [data |-> "empty", contentType |-> "application/pdf", size |-> 0]

NoDoc == [_id |-> 0, TrackingNumber |-> NoTN, Status |-> "", RecipientId |-> 0, Price |-> 0,
          Package_weight |-> 0, ID_proof |-> NoProof]
\* A body field the client left out: NoTN, "", 0, NoPrice and NoProof in turn.
\* IncSize is the amount of a $inc on ID_proof.size, 0 when the body has none.
NoPrice == -1
NoWeight == -1
NoBody == [TrackingNumber |-> NoTN, Status |-> "", RecipientId |-> 0, Price |-> NoPrice,
           Package_weight |-> NoWeight, ID_proof |-> NoProof, IncSize |-> 0]

EmptyPre == [packages |-> {}, recipients |-> {}]
NoReq == [op |-> "none", tn |-> NoTN, body |-> NoBody, items |-> <<>>, keys |-> <<>>]
NoRace == [with |-> NoProc, won |-> FALSE]
NoLoc == [doc |-> NoDoc, next |-> 0, i |-> 0, notFound |-> <<>>, updated |-> <<>>]
\* The package of a GET response: its fields as they are serialised.
NoRecord == [Status |-> "", RecipientId |-> <<>>, Price |-> <<>>]
NoResp == [status |-> 0, data |-> <<>>, index |-> 0, deletedCount |-> 0, notFoundNumbers |-> <<>>,
           message |-> "", record |-> NoRecord, proof |-> NoProof]

Range(s) == {s[i] : i \in 1..Len(s)}

Highest(S) == CHOOSE m \in S : \A n \in S : n <= m

SeqsUpTo(S, n) == UNION {[1..k -> S] : k \in 0..n}

----------------------------------------------------------------------------
(* Schema and route validation *)

\* PackageSchema.Price validator: /^\d+(\.\d)?$/.test(v) && v > 0
PriceSchemaValid(v) == v > 0 /\ v % 100 = 0

\* validatePackage on Price: number, toFixed(2) matches /^\d+(\.\d{1,2})?$/, > 0
\* (toFixed(2) of a positive number always has exactly two fraction digits).
PriceRouteValid(v) == v > 0

\* v.toFixed(2): v rounded to hundredths, written with its sign and exactly
\* two fraction digits (here: sign and hundredths).
ToFixed2(v) ==
    IF v >= 0 THEN [sign |-> "", hundredths |-> (v + 5) \div 10]
    ELSE [sign |-> "-", hundredths |-> (5 - v) \div 10]
\* /^\d+(\.\d{1,2})?$/ on such a string: digits, a point, two digits match;
\* a sign does not.
MatchesTwoDecimals(str) == str.sign = ""

\* PackageSchema.Package_weight validator and validatePackage's test of the
\* weight (the same expression): the regex on v.toFixed(2), and v > 0.
WeightValid(v) == MatchesTwoDecimals(ToFixed2(v)) /\ v > 0

\* The ID_proof validators: the contentType enum and the size validator run
\* on the sub-fields that carry a value.
ProofSchemaValid(pr) ==
    /\ pr.contentType # "none" => pr.contentType \in ProofTypes
    /\ pr.size # NoSize => pr.size <= MaxProofSize

\* Schema validation of a whole package document (required + enum + validators).
SchemaValid(d) ==
    /\ d.Status \in StatusEnum
    /\ d.RecipientId # 0
    /\ PriceSchemaValid(d.Price)
    /\ WeightValid(d.Package_weight)
    /\ ProofSchemaValid(d.ID_proof)

\* validatePackage middleware: 0 when the body passes, else 400.
validatePackage(b) ==
    IF b.Status = "" \/ b.RecipientId = 0 \/ b.Price \in {NoPrice, 0}
       \/ b.Package_weight \in {NoWeight, 0} THEN 400
    ELSE IF b.Status \notin StatusEnum THEN 400
    ELSE IF ~WeightValid(b.Package_weight) THEN 400
    ELSE IF ~PriceRouteValid(b.Price) THEN 400
    ELSE 0

\* The schema defaults fill the ID_proof sub-fields that are undefined, when
\* a document is built and when one is loaded from the store.
WithDefaults(pr) ==
    [data |-> IF pr.data = "none" THEN DefaultProof.data ELSE pr.data,
     contentType |-> IF pr.contentType = "none" THEN DefaultProof.contentType ELSE pr.contentType,
     size |-> IF pr.size = NoSize THEN DefaultProof.size ELSE pr.size]

\* The fields of a body as a stored document, nothing defaulted.
Document(b) ==
    [_id |-> 0, TrackingNumber |-> b.TrackingNumber, Status |-> b.Status,
     RecipientId |-> b.RecipientId, Price |-> b.Price, Package_weight |-> b.Package_weight,
     ID_proof |-> b.ID_proof]

\* new Package(body): the document built from a request body.
NewPackage(b) == [Document(b) EXCEPT !.ID_proof = WithDefaults(b.ID_proof)]

----------------------------------------------------------------------------
(* Storage primitives *)

TNs(pk) == {d.TrackingNumber : d \in pk}

\* findOne().sort({ TrackingNumber: -1 }): documents without the field sort last.
LastPackage(pk) ==
    LET numbered == {d \in pk : d.TrackingNumber # NoTN}
    IN IF numbered # {}
       THEN CHOOSE d \in numbered : \A e \in numbered : e.TrackingNumber <= d.TrackingNumber
       ELSE CHOOSE d \in pk : TRUE

\* An allocator that counts the documents instead of reading the last one.
NextTrackingNumberByCount(pk) == Cardinality(pk) + 1

\* lastPackage ? lastPackage.TrackingNumber + 1 : 1
NextTrackingNumber(pk) ==
    IF pk = {} THEN 1
    ELSE IF LastPackage(pk).TrackingNumber = NoTN THEN NaN
    ELSE LastPackage(pk).TrackingNumber + 1

\* A hook that numbers only the documents that come without a number.
PreSaveNumberIfMissing(doc, pk) ==
    IF doc.TrackingNumber # NoTN THEN doc.TrackingNumber ELSE NextTrackingNumber(pk)

\* The pre('save') hook: doc.TrackingNumber = nextTrackingNumber, whatever
\* the document carried.
PreSaveNumber(doc, pk) == NextTrackingNumber(pk)

\* A collection without the unique index.
UniqueOKNoIndex(pk, tn) == TRUE

\* The unique index on TrackingNumber: a key (a missing field counts as the
\* key null) may be held by one document only.
UniqueOK(pk, tn) == \A d \in pk : d.TrackingNumber # tn

\* A lookup that never misses.
RecipientExistsAlways(rid) == TRUE

\* Recipient.findById
RecipientExists(rid) == \E r \in recipients : r._id = rid

----------------------------------------------------------------------------
(* Request bookkeeping *)

Idle(p) == pc[p] \in {"idle", "done"}

\* One step of slot p: it moves to `label` with request r, locals l, response
\* rs and inserted set iset.  The finished exchange of any other slot is
\* forgotten, and the histories record that p stepped.
Advance(p, r, label, l, rs, iset) ==
    /\ pc' = [q \in Procs |-> IF q = p THEN label ELSE IF pc[q] = "done" THEN "idle" ELSE pc[q]]
    /\ req' = [q \in Procs |-> IF q = p THEN r ELSE IF pc[q] = "done" THEN NoReq ELSE req[q]]
    /\ loc' = [q \in Procs |-> IF q = p THEN l ELSE loc[q]]
    /\ resp' = [q \in Procs |-> IF q = p THEN rs ELSE IF pc[q] = "done" THEN NoResp ELSE resp[q]]
    /\ ins' = [q \in Procs |-> IF q = p THEN iset ELSE IF pc[q] = "done" THEN {} ELSE ins[q]]
    /\ alone' = [q \in Procs |-> q = p /\ (Idle(p) \/ alone[p])]
    /\ pre' = [q \in Procs |-> IF q # p THEN EmptyPre
                               ELSE IF Idle(p) THEN [packages |-> packages, recipients |-> recipients]
                               ELSE pre[p]]

\* The handler goes on to its next awaited call.
Goto(p, r, label, l) == Advance(p, r, label, l, NoResp, IF Idle(p) THEN {} ELSE ins[p])

\* The handler sends its response.
Reply(p, r, rs) == Advance(p, r, "done", NoLoc, rs, IF Idle(p) THEN {} ELSE ins[p])

Status(s) == [NoResp EXCEPT !.status = s]

\* The race history: a pair of Creates stays paired while only the two of
\* them step; rc is the pairing the stepping slot p sets for itself.
Paired(p, rc) ==
    race' = [q \in Procs |-> IF q = p THEN rc
                             ELSE IF race[q].with = p /\ ~Idle(p) THEN race[q]
                             ELSE NoRace]

----------------------------------------------------------------------------
Init ==
    /\ packages = {}
    /\ recipients = {}
    /\ nextId = 1
    /\ nextRid = 1
    /\ pc = [p \in Procs |-> "idle"]
    /\ req = [p \in Procs |-> NoReq]
    /\ loc = [p \in Procs |-> NoLoc]
    /\ resp = [p \in Procs |-> NoResp]
    /\ alone = [p \in Procs |-> FALSE]
    /\ pre = [p \in Procs |-> EmptyPre]
    /\ ins = [p \in Procs |-> {}]
    /\ race = [p \in Procs |-> NoRace]
    /\ issued = 0

----------------------------------------------------------------------------
(* Recipient routes *)

\* POST /recipients: new Recipient(body).save(); the contact is not unique.
RecipientCreate(p, contact, cap) ==
    /\ Idle(p)
    /\ nextRid <= cap
    /\ recipients' = recipients \cup {[_id |-> nextRid, RecipientContact |-> contact,
                                       RecipientName |-> "Jane Doe",
                                       RecipientEmail |-> "jane@example.com"]}
    /\ nextRid' = nextRid + 1
    /\ Reply(p, [NoReq EXCEPT !.op = "RecipientCreate", !.tn = contact], Status(201))
    /\ Paired(p, NoRace)
    /\ UNCHANGED <<packages, nextId, issued>>

\* The document findOne / findOneAndDelete / findOneAndUpdate picks among
\* several matches: the first in insertion order.
FirstOf(docs) == CHOOSE r \in docs : \A s \in docs : r._id <= s._id

\* DELETE /recipients/:RecipientContact: findOneAndDelete.
RecipientDelete(p, contact) ==
    /\ Idle(p)
    /\ LET hit == {r \in recipients : r.RecipientContact = contact}
           r == [NoReq EXCEPT !.op = "RecipientDelete", !.tn = contact]
       IN IF hit = {}
          THEN /\ Reply(p, r, Status(404))
               /\ recipients' = recipients
          ELSE /\ Reply(p, r, Status(200))
               /\ recipients' = recipients \ {FirstOf(hit)}
    /\ Paired(p, NoRace)
    /\ UNCHANGED <<packages, nextId, nextRid, issued>>

----------------------------------------------------------------------------
(* POST /packages *)

\* validatePackage, then Recipient.findById, then new Package(req.body).
CreateBegin(p, body) ==
    /\ Idle(p)
    /\ LET r == [NoReq EXCEPT !.op = "Create", !.body = body]
       IN IF validatePackage(body) # 0
          THEN Reply(p, r, Status(400))
          ELSE IF ~RecipientExists(body.RecipientId)
          THEN Reply(p, r, Status(404))
          ELSE Goto(p, r, "c_save", [NoLoc EXCEPT !.doc = NewPackage(body)])
    /\ Paired(p, NoRace)
    /\ UNCHANGED <<packages, recipients, nextId, nextRid, issued>>

\* save(): document validation, then the pre('save') hook reads the last
\* package and overwrites doc.TrackingNumber.
CreatePreSave(p) ==
    /\ pc[p] = "c_save"
    /\ IF ~SchemaValid(loc[p].doc)
       THEN /\ Reply(p, req[p], Status(500))
            /\ Paired(p, NoRace)
       ELSE LET n == PreSaveNumber(loc[p].doc, packages)
                rivals == {q \in Procs \ {p} : pc[q] = "c_insert" /\ loc[q].next = n}
            IN /\ Goto(p, req[p], "c_insert", [loc[p] EXCEPT !.next = n, !.doc.TrackingNumber = n])
               /\ IF rivals = {}
                  THEN Paired(p, NoRace)
                  ELSE LET q == CHOOSE q \in rivals : TRUE
                       IN race' = [s \in Procs |-> IF s = p THEN [with |-> q, won |-> FALSE]
                                                   ELSE IF s = q THEN [with |-> p, won |-> FALSE]
                                                   ELSE NoRace]
    /\ UNCHANGED <<packages, recipients, nextId, nextRid, issued>>

\* An insert that ignores the duplicate-key rejection.
InsertOKUnchecked(pk, doc) == doc.TrackingNumber # NaN

\* The insert one document goes through: a NaN number cannot be cast, a
\* taken number is rejected by the unique index.
InsertOK(pk, doc) == doc.TrackingNumber # NaN /\ UniqueOK(pk, doc.TrackingNumber)

\* save(): the insert; an error goes to next(error), which answers 500.
CreateInsert(p, cap) ==
    /\ pc[p] = "c_insert"
    /\ nextId <= cap
    /\ LET doc == [loc[p].doc EXCEPT !._id = nextId]
       IN IF ~InsertOK(packages, doc)
          THEN /\ Reply(p, req[p], Status(500))
               /\ Paired(p, race[p])
               /\ UNCHANGED <<packages, nextId, issued>>
          ELSE /\ packages' = packages \cup {doc}
               /\ nextId' = nextId + 1
               /\ issued' = Highest({issued, doc.TrackingNumber})
               /\ Advance(p, req[p], "done", NoLoc,
                          [Status(201) EXCEPT !.data = <<doc.TrackingNumber>>], {doc._id})
               /\ race' = [q \in Procs |-> IF q = p THEN race[p]
                                           ELSE IF race[q].with = p THEN [race[q] EXCEPT !.won = TRUE]
                                           ELSE NoRace]
    /\ UNCHANGED <<recipients, nextRid>>

\* DELETE /packages/:trackingNumber: findOneAndDelete.
Delete(p, tn) ==
    /\ Idle(p)
    /\ LET hit == {d \in packages : d.TrackingNumber = tn}
           r == [NoReq EXCEPT !.op = "Delete", !.tn = tn]
       IN IF hit = {}
          THEN /\ packages' = packages
               /\ Reply(p, r, Status(404))
          ELSE /\ packages' = packages \ {FirstOf(hit)}
               /\ Reply(p, r, Status(200))
    /\ Paired(p, NoRace)
    /\ UNCHANGED <<recipients, nextId, nextRid, issued>>

----------------------------------------------------------------------------
(* PUT and PATCH /packages/:trackingNumber *)

\* Update validators (runValidators) on the fields an update sets.
UpdateValid(f) ==
    /\ f.Status # "" => f.Status \in StatusEnum
    /\ f.Price # NoPrice => PriceSchemaValid(f.Price)
    /\ f.Package_weight # NoWeight => WeightValid(f.Package_weight)
    /\ ProofSchemaValid(f.ID_proof)

\* $set of the fields present in f on document d, the ID_proof sub-fields
\* by their dotted paths, and the $inc of ID_proof.size (a missing size
\* counts as 0).
ApplySet(d, f) ==
    [_id |-> d._id,
     TrackingNumber |-> IF f.TrackingNumber # NoTN THEN f.TrackingNumber ELSE d.TrackingNumber,
     Status |-> IF f.Status # "" THEN f.Status ELSE d.Status,
     RecipientId |-> IF f.RecipientId # 0 THEN f.RecipientId ELSE d.RecipientId,
     Price |-> IF f.Price # NoPrice THEN f.Price ELSE d.Price,
     Package_weight |-> IF f.Package_weight # NoWeight THEN f.Package_weight ELSE d.Package_weight,
     ID_proof |->
        [data |-> IF f.ID_proof.data # "none" THEN f.ID_proof.data ELSE d.ID_proof.data,
         contentType |-> IF f.ID_proof.contentType # "none" THEN f.ID_proof.contentType
                         ELSE d.ID_proof.contentType,
         size |-> IF f.IncSize # 0
                  THEN (IF d.ID_proof.size = NoSize THEN 0 ELSE d.ID_proof.size) + f.IncSize
                  ELSE IF f.ID_proof.size # NoSize THEN f.ID_proof.size ELSE d.ID_proof.size]]

\* overwrite: true - the stored document becomes the body, under the same _id.
ApplyOverwrite(d, body) == [Document(body) EXCEPT !._id = d._id]

\* findOneAndUpdate({ TrackingNumber: tn }, ...) on the collection: the
\* status of the call (0 when it went through) and the collection after it;
\* f are the fields sent, written with $set or, under overwrite, as the
\* whole document.
\* The validators run before the query; the unique index guards the write.
FindOneAndUpdate(pk, tn, valid, f, overwrite) ==
    LET hit == {d \in pk : d.TrackingNumber = tn}
    IN IF ~valid THEN [status |-> 500, packages |-> pk, doc |-> NoDoc]
       ELSE IF hit = {} THEN [status |-> 404, packages |-> pk, doc |-> NoDoc]
       ELSE LET d == FirstOf(hit)
                new == IF overwrite THEN ApplyOverwrite(d, f) ELSE ApplySet(d, f)
            IN IF ~UniqueOK(pk \ {d}, new.TrackingNumber)
               THEN [status |-> 500, packages |-> pk, doc |-> NoDoc]
               ELSE [status |-> 0, packages |-> (pk \ {d}) \cup {new}, doc |-> new]

\* PUT /packages/:trackingNumber
Replace(p, tn, body) ==
    /\ Idle(p)
    /\ LET u == FindOneAndUpdate(packages, tn, SchemaValid(Document(body)), body, TRUE)
           r == [NoReq EXCEPT !.op = "Replace", !.tn = tn, !.body = body]
       IN /\ packages' = u.packages
          /\ Reply(p, r, Status(IF u.status = 0 THEN 200 ELSE u.status))
    /\ Paired(p, NoRace)
    /\ UNCHANGED <<recipients, nextId, nextRid, issued>>

\* An update that hands the whole body on.
PatchUpdateWholeBody(body) == body

\* The update of the PATCH: { Status: req.body.Status }.
PatchUpdate(body) == [NoBody EXCEPT !.Status = body.Status]

\* PATCH /packages/:trackingNumber with any body.
Patch(p, tn, body) ==
    /\ Idle(p)
    /\ LET f == PatchUpdate(body)
           u == FindOneAndUpdate(packages, tn, UpdateValid(f), f, FALSE)
           r == [NoReq EXCEPT !.op = "PatchStatus", !.tn = tn, !.body = body]
       IN /\ packages' = u.packages
          /\ Reply(p, r, Status(IF u.status = 0 THEN 200 ELSE u.status))
    /\ Paired(p, NoRace)
    /\ UNCHANGED <<recipients, nextId, nextRid, issued>>

\* PATCH /packages/:trackingNumber with a body of Status alone.
PatchStatus(p, tn, status) == Patch(p, tn, [NoBody EXCEPT !.Status = status])

----------------------------------------------------------------------------
(* POST /packages/add-many and /packages/import *)

\* Numbering with ++nextTrackingNumber: every item one too high.
NumberedPreIncrement(items, n) ==
    [i \in 1..Len(items) |->
        [NewPackage(items[i]) EXCEPT !.TrackingNumber = IF n = NaN THEN NaN ELSE n + i]]

\* packages[i].TrackingNumber = nextTrackingNumber++ for i = 1..Len(items)
Numbered(items, n) ==
    [i \in 1..Len(items) |->
        [NewPackage(items[i]) EXCEPT !.TrackingNumber = IF n = NaN THEN NaN ELSE n + i - 1]]

\* Model.insertMany(docs), ordered: every document is validated first and a
\* failure inserts nothing; the store then inserts in order and stops at the
\* first duplicate key, keeping what it had inserted.
RECURSIVE InsertOrdered(_, _, _, _)
InsertOrdered(pk, docs, i, id) ==
    IF i > Len(docs) THEN [ok |-> TRUE, packages |-> pk, n |-> Len(docs)]
    ELSE IF ~UniqueOK(pk, docs[i].TrackingNumber) THEN [ok |-> FALSE, packages |-> pk, n |-> i - 1]
    ELSE InsertOrdered(pk \cup {[docs[i] EXCEPT !._id = id]}, docs, i + 1, id + 1)

InsertMany(pk, docs, id) ==
    IF \E i \in 1..Len(docs) : ~SchemaValid(docs[i]) \/ docs[i].TrackingNumber = NaN
    THEN [ok |-> FALSE, packages |-> pk, n |-> 0]
    ELSE InsertOrdered(pk, docs, 1, id)

\* A recipient check that skips the item it cannot resolve.
AddManyCheckItemSkip(p, r, i) ==
    IF i >= Len(r.items) THEN Goto(p, r, "am_last", NoLoc)
    ELSE Goto(p, r, "am_check", [NoLoc EXCEPT !.i = i + 1])

\* The recipient check of item i of a bulk request, one findById per item.
AddManyCheckItem(p, r, i) ==
    IF i > Len(r.items) THEN Goto(p, r, "am_last", NoLoc)
    ELSE IF ~RecipientExists(r.items[i].RecipientId)
    THEN Reply(p, r, [Status(404) EXCEPT !.index = i])
    ELSE IF i = Len(r.items) THEN Goto(p, r, "am_last", NoLoc)
    ELSE Goto(p, r, "am_check", [NoLoc EXCEPT !.i = i + 1])

AddManyBegin(p, items) ==
    /\ Idle(p)
    /\ AddManyCheckItem(p, [NoReq EXCEPT !.op = "AddMany", !.items = items], 1)
    /\ Paired(p, NoRace)
    /\ UNCHANGED <<packages, recipients, nextId, nextRid, issued>>

AddManyCheck(p) ==
    /\ pc[p] = "am_check"
    /\ AddManyCheckItem(p, req[p], loc[p].i)
    /\ Paired(p, NoRace)
    /\ UNCHANGED <<packages, recipients, nextId, nextRid, issued>>

\* Package_details.findOne().sort({ TrackingNumber: -1 }), read once.
AddManyLast(p) ==
    /\ pc[p] = "am_last"
    /\ Goto(p, req[p], "am_insert", [NoLoc EXCEPT !.next = NextTrackingNumber(packages)])
    /\ Paired(p, NoRace)
    /\ UNCHANGED <<packages, recipients, nextId, nextRid, issued>>

\* insertMany and the response, for add-many and import alike.
BulkInsert(p, cap) ==
    /\ LET docs == Numbered(req[p].items, loc[p].next)
           u == InsertMany(packages, docs, nextId)
       IN /\ nextId + u.n - 1 <= cap
          /\ packages' = u.packages
          /\ nextId' = nextId + u.n
          /\ issued' = Highest({issued} \cup {docs[i].TrackingNumber : i \in 1..u.n})
          /\ Advance(p, req[p], "done", NoLoc,
                     IF u.ok THEN [Status(201) EXCEPT !.data = [i \in 1..Len(docs) |-> docs[i].TrackingNumber]]
                     ELSE Status(500),
                     nextId..(nextId + u.n - 1))
    /\ Paired(p, NoRace)
    /\ UNCHANGED <<recipients, nextRid>>

AddManyInsert(p, cap) ==
    /\ pc[p] = "am_insert"
    /\ BulkInsert(p, cap)

\* POST /packages/import: the file checks, then the last package is read
\* before the recipients are checked.  file is "none", "garbage" or "json".
ImportBegin(p, file, items) ==
    /\ Idle(p)
    /\ LET r == [NoReq EXCEPT !.op = "Import", !.items = items]
       IN IF file # "json" \/ Len(items) = 0
          THEN Reply(p, r, Status(400))
          ELSE Goto(p, r, "im_check", [NoLoc EXCEPT !.next = NextTrackingNumber(packages), !.i = 1])
    /\ Paired(p, NoRace)
    /\ UNCHANGED <<packages, recipients, nextId, nextRid, issued>>

ImportCheck(p) ==
    /\ pc[p] = "im_check"
    /\ LET i == loc[p].i
       IN IF ~RecipientExists(req[p].items[i].RecipientId)
          THEN Reply(p, req[p], [Status(404) EXCEPT !.index = i])
          ELSE IF i = Len(req[p].items)
          THEN Goto(p, req[p], "im_insert", [loc[p] EXCEPT !.i = 0])
          ELSE Goto(p, req[p], "im_check", [loc[p] EXCEPT !.i = i + 1])
    /\ Paired(p, NoRace)
    /\ UNCHANGED <<packages, recipients, nextId, nextRid, issued>>

ImportInsert(p, cap) ==
    /\ pc[p] = "im_insert"
    /\ BulkInsert(p, cap)

----------------------------------------------------------------------------
(* POST /packages/delete-many and /recipients/delete-many *)

\* A query that matches the first key of the array only.
InKeysFirst(key, keys) == Len(keys) > 0 /\ key = keys[1]

\* { $in: keys }
InKeys(key, keys) == key \in Range(keys)

\* trackingNumbers.filter(num => !existingNumbers.includes(num))
Filter(keys, existing) ==
    LET RECURSIVE F(_)
        F(i) == IF i > Len(keys) THEN <<>>
                ELSE IF keys[i] \in existing THEN F(i + 1)
                ELSE <<keys[i]>> \o F(i + 1)
    IN F(1)

\* The array checks, then Package.find({ TrackingNumber: { $in: keys } }).
DeleteManyBegin(p, keys) ==
    /\ Idle(p)
    /\ LET r == [NoReq EXCEPT !.op = "DeleteMany", !.keys = keys]
           existingNumbers == {d.TrackingNumber : d \in {e \in packages : InKeys(e.TrackingNumber, keys)}}
       IN IF Len(keys) = 0
          THEN Reply(p, r, Status(400))
          ELSE Goto(p, r, "dm_delete", [NoLoc EXCEPT !.notFound = Filter(keys, existingNumbers)])
    /\ Paired(p, NoRace)
    /\ UNCHANGED <<packages, recipients, nextId, nextRid, issued>>

\* Package.deleteMany({ TrackingNumber: { $in: keys } }) and the response.
DeleteManyDelete(p) ==
    /\ pc[p] = "dm_delete"
    /\ LET gone == {d \in packages : InKeys(d.TrackingNumber, req[p].keys)}
       IN /\ packages' = packages \ gone
          /\ Reply(p, req[p], [Status(200) EXCEPT !.deletedCount = Cardinality(gone),
                                                  !.notFoundNumbers = loc[p].notFound])
    /\ Paired(p, NoRace)
    /\ UNCHANGED <<recipients, nextId, nextRid, issued>>

RecipientDeleteManyBegin(p, keys) ==
    /\ Idle(p)
    /\ LET r == [NoReq EXCEPT !.op = "RecipientDeleteMany", !.keys = keys]
           existingNumbers == {d.RecipientContact : d \in {e \in recipients : InKeys(e.RecipientContact, keys)}}
       IN IF Len(keys) = 0
          THEN Reply(p, r, Status(400))
          ELSE Goto(p, r, "rdm_delete", [NoLoc EXCEPT !.notFound = Filter(keys, existingNumbers)])
    /\ Paired(p, NoRace)
    /\ UNCHANGED <<packages, recipients, nextId, nextRid, issued>>

RecipientDeleteManyDelete(p) ==
    /\ pc[p] = "rdm_delete"
    /\ LET gone == {d \in recipients : InKeys(d.RecipientContact, req[p].keys)}
       IN /\ recipients' = recipients \ gone
          /\ Reply(p, req[p], [Status(200) EXCEPT !.deletedCount = Cardinality(gone),
                                                  !.notFoundNumbers = loc[p].notFound])
    /\ Paired(p, NoRace)
    /\ UNCHANGED <<packages, nextId, nextRid, issued>>

----------------------------------------------------------------------------
(* POST /packages/update-many *)

\* One turn of the loop on updates[i]: the shape check, findOneAndUpdate,
\* the push on a result list, and the response after the last item.
UpdateManyItem(p, r, i, l) ==
    LET item == r.items[i]
        u == FindOneAndUpdate(packages, item.TrackingNumber, UpdateValid(item.fieldsToUpdate),
                              item.fieldsToUpdate, FALSE)
        l2 == IF u.status = 0 THEN [l EXCEPT !.updated = Append(@, u.doc._id), !.i = i + 1]
              ELSE [l EXCEPT !.notFound = Append(@, item.TrackingNumber), !.i = i + 1]
    IN IF item.TrackingNumber = 0 \/ ~item.object
       THEN /\ Reply(p, r, Status(400))
            /\ packages' = packages
       ELSE IF u.status = 500
       THEN /\ Reply(p, r, Status(500))
            /\ packages' = u.packages
       ELSE /\ packages' = u.packages
            /\ IF i = Len(r.items)
               THEN Reply(p, r, [Status(200) EXCEPT !.data = l2.updated, !.notFoundNumbers = l2.notFound])
               ELSE Goto(p, r, "um_loop", l2)

UpdateManyBegin(p, updates) ==
    /\ Idle(p)
    /\ LET r == [NoReq EXCEPT !.op = "UpdateMany", !.items = updates]
       IN IF Len(updates) = 0
          THEN Reply(p, r, Status(400)) /\ packages' = packages
          ELSE UpdateManyItem(p, r, 1, NoLoc)
    /\ Paired(p, NoRace)
    /\ UNCHANGED <<recipients, nextId, nextRid, issued>>

UpdateManyLoop(p) ==
    /\ pc[p] = "um_loop"
    /\ UpdateManyItem(p, req[p], loc[p].i, loc[p])
    /\ Paired(p, NoRace)
    /\ UNCHANGED <<recipients, nextId, nextRid, issued>>

----------------------------------------------------------------------------
(* POST /recipients/update-many *)

\* RecipientSchema.RecipientName validator: /^[A-Za-z\s]+$/, on the names the
\* clients send.
NameValid(name) == name \in {"Jane Doe", "Jane Roe", "Ann Lee"}

\* An update that is written before its validators run.
RecipientFindOneAndUpdateUnvalidated(rc, contact, name) ==
    LET hit == {r \in rc : r.RecipientContact = contact}
    IN IF hit = {} THEN [status |-> IF name # "" /\ ~NameValid(name) THEN 400 ELSE 404, recipients |-> rc, id |-> 0]
       ELSE LET r == FirstOf(hit)
                new == [r EXCEPT !.RecipientName = IF name # "" THEN name ELSE @]
            IN [status |-> IF name # "" /\ ~NameValid(name) THEN 400 ELSE 0,
                recipients |-> (rc \ {r}) \cup {new}, id |-> r._id]

\* Recipient.findOneAndUpdate({ RecipientContact }, updateData, runValidators):
\* the status of the call (0 when it went through; 400 is the
\* ValidationError the route answers with) and the collection after it.  name
\* is "" when updateData leaves the name out.
RecipientFindOneAndUpdate(rc, contact, name) ==
    LET hit == {r \in rc : r.RecipientContact = contact}
    IN IF name # "" /\ ~NameValid(name) THEN [status |-> 400, recipients |-> rc, id |-> 0]
       ELSE IF hit = {} THEN [status |-> 404, recipients |-> rc, id |-> 0]
       ELSE LET r == FirstOf(hit)
                new == [r EXCEPT !.RecipientName = IF name # "" THEN name ELSE @]
            IN [status |-> 0, recipients |-> (rc \ {r}) \cup {new}, id |-> r._id]

\* One turn of the loop on updates[i].
RecipientUpdateManyItem(p, r, i, l) ==
    LET item == r.items[i]
        u == RecipientFindOneAndUpdate(recipients, item.RecipientContact, item.RecipientName)
        l2 == IF u.status = 0 THEN [l EXCEPT !.updated = Append(@, u.id), !.i = i + 1]
              ELSE [l EXCEPT !.notFound = Append(@, item.RecipientContact), !.i = i + 1]
    IN /\ recipients' = u.recipients
       /\ IF u.status = 400 THEN Reply(p, r, [Status(400) EXCEPT !.message = "Validation error"])
          ELSE IF i = Len(r.items)
          THEN Reply(p, r, [Status(200) EXCEPT !.data = l2.updated, !.notFoundNumbers = l2.notFound])
          ELSE Goto(p, r, "rum_loop", l2)

\* A check that looks at the first item only.
ContactsNumericFirst(updates) == updates[1].RecipientContact # 0

\* updates.every(update => typeof update.RecipientContact === 'number'): a
\* RecipientContact that is not a number is 0 here.
ContactsNumeric(updates) == \A i \in 1..Len(updates) : updates[i].RecipientContact # 0

\* The array checks, all before the first update.
RecipientUpdateManyBegin(p, updates) ==
    /\ Idle(p)
    /\ LET r == [NoReq EXCEPT !.op = "RecipientUpdateMany", !.items = updates]
       IN IF Len(updates) = 0 \/ ~ContactsNumeric(updates)
          THEN Reply(p, r, Status(400)) /\ recipients' = recipients
          ELSE RecipientUpdateManyItem(p, r, 1, NoLoc)
    /\ Paired(p, NoRace)
    /\ UNCHANGED <<packages, nextId, nextRid, issued>>

RecipientUpdateManyLoop(p) ==
    /\ pc[p] = "rum_loop"
    /\ RecipientUpdateManyItem(p, req[p], loc[p].i, loc[p])
    /\ Paired(p, NoRace)
    /\ UNCHANGED <<packages, nextId, nextRid, issued>>

----------------------------------------------------------------------------
(* POST /recipients with any body, PATCH /recipients/:RecipientContact and
   POST /recipients/add-many *)

\* RecipientSchema validators on the values the clients send: the email
\* regex, and a contact of 10 to 15 digits.
EmailValid(email) == email \in {"jane@example.com", "ann@example.com"}
ContactValid(contact) == contact >= 1000000000

\* Document validation of a recipient body; a missing field is "" or 0.
\* Address and ID_proof are taken as sent and valid.
RecipientValid(b) ==
    /\ b.RecipientName # "" /\ NameValid(b.RecipientName)
    /\ b.RecipientEmail # "" /\ EmailValid(b.RecipientEmail)
    /\ b.RecipientContact # 0 /\ ContactValid(b.RecipientContact)

\* POST /recipients: new Recipient(req.body).save(); an error goes to
\* next(error) and errorHandling answers error.status || 500.
RecipientPost(p, body, cap) ==
    /\ Idle(p)
    /\ nextRid <= cap
    /\ LET r == [NoReq EXCEPT !.op = "RecipientPost", !.tn = body.RecipientContact, !.items = <<body>>]
       IN IF ~RecipientValid(body)
          THEN /\ Reply(p, r, [Status(500) EXCEPT !.message = "Validation failed"])
               /\ UNCHANGED <<recipients, nextRid>>
          ELSE /\ recipients' = recipients \cup {[_id |-> nextRid,
                                                 RecipientContact |-> body.RecipientContact,
                                                 RecipientName |-> body.RecipientName,
                                                 RecipientEmail |-> body.RecipientEmail]}
               /\ nextRid' = nextRid + 1
               /\ Reply(p, r, Status(201))
    /\ Paired(p, NoRace)
    /\ UNCHANGED <<packages, nextId, issued>>

\* A contact check that forgets the recipient's own number.
ContactInUseByAnyone(rc, new, own) == \E r \in rc : r.RecipientContact = new

\* existingContact && updates.RecipientContact != RecipientContact
ContactInUse(rc, new, own) == (\E r \in rc : r.RecipientContact = new) /\ new # own

\* Recipient.findOneAndUpdate({ RecipientContact }, updates, runValidators)
\* of the PATCH: the validators of the fields sent, then the first match.
RecipientPatchApply(p, r) ==
    LET u == r.items[1]
        hit == {d \in recipients : d.RecipientContact = r.tn}
    IN IF \/ u.RecipientName # "" /\ ~NameValid(u.RecipientName)
          \/ u.RecipientContact # 0 /\ ~ContactValid(u.RecipientContact)
       THEN Reply(p, r, Status(500)) /\ recipients' = recipients
       ELSE IF hit = {}
       THEN Reply(p, r, Status(404)) /\ recipients' = recipients
       ELSE LET d == FirstOf(hit)
                new == [d EXCEPT !.RecipientName = IF u.RecipientName # "" THEN u.RecipientName ELSE @,
                                 !.RecipientContact = IF u.RecipientContact # 0 THEN u.RecipientContact ELSE @]
            IN Reply(p, r, Status(200)) /\ recipients' = (recipients \ {d}) \cup {new}

\* PATCH: with a RecipientContact in the body, the awaited findOne and the
\* collision check; without one, the update at once.
RecipientPatchBegin(p, contact, updates) ==
    /\ Idle(p)
    /\ LET r == [NoReq EXCEPT !.op = "RecipientPatch", !.tn = contact, !.items = <<updates>>]
       IN IF updates.RecipientContact = 0 THEN RecipientPatchApply(p, r)
          ELSE /\ recipients' = recipients
               /\ IF ContactInUse(recipients, updates.RecipientContact, contact)
                  THEN Reply(p, r, [Status(400) EXCEPT !.message = "The new contact number is already in use."])
                  ELSE Goto(p, r, "rp_update", NoLoc)
    /\ Paired(p, NoRace)
    /\ UNCHANGED <<packages, nextId, nextRid, issued>>

RecipientPatchUpdate(p) ==
    /\ pc[p] = "rp_update"
    /\ RecipientPatchApply(p, req[p])
    /\ Paired(p, NoRace)
    /\ UNCHANGED <<packages, nextId, nextRid, issued>>

\* POST /recipients/add-many: insertMany(recipients, { ordered: true })
\* validates every document before it inserts any.
RecipientAddMany(p, bodies, cap) ==
    /\ Idle(p)
    /\ nextRid + Len(bodies) - 1 <= cap
    /\ LET r == [NoReq EXCEPT !.op = "RecipientAddMany", !.items = bodies]
       IN IF Len(bodies) = 0
          THEN Reply(p, r, Status(400)) /\ UNCHANGED <<recipients, nextRid>>
          ELSE IF \E i \in 1..Len(bodies) : ~RecipientValid(bodies[i])
          THEN Reply(p, r, Status(500)) /\ UNCHANGED <<recipients, nextRid>>
          ELSE /\ recipients' = recipients \cup
                     {[_id |-> nextRid + i - 1,
                       RecipientContact |-> bodies[i].RecipientContact,
                       RecipientName |-> bodies[i].RecipientName,
                       RecipientEmail |-> bodies[i].RecipientEmail] : i \in 1..Len(bodies)}
               /\ nextRid' = nextRid + Len(bodies)
               /\ Reply(p, r, Status(201))
    /\ Paired(p, NoRace)
    /\ UNCHANGED <<packages, nextId, issued>>

----------------------------------------------------------------------------
(* GET /packages/:trackingNumber and the ID_Proof routes *)

\* A number as JSON carries it, and as the schema getter displays it:
\* v.toFixed(2) behind a '$'.  Thousandths are rounded to hundredths.
JsonNumber(v) == <<"number", v>>
PriceDisplay(v) == <<"$", (v + 5) \div 10>>

\* populate('RecipientId'): the recipient document, or null when none has
\* that _id.
Populate(rid) ==
    IF \E r \in recipients : r._id = rid
    THEN LET r == CHOOSE r \in recipients : r._id = rid
         IN <<"recipient", r._id, r.RecipientContact>>
    ELSE <<"null">>

\* pkg._doc spread into the response: the stored values, no getter applied.
Serialised(d) ==
    [Status |-> d.Status, RecipientId |-> Populate(d.RecipientId), Price |-> JsonNumber(d.Price)]

\* !pkg.ID_proof.data: a buffer, even an empty one, is truthy; null is not.
Falsy(data) == data \in {"null", "none"}

\* GET /packages/:trackingNumber: findOne and populate in one awaited chain.
Get(p, tn) ==
    /\ Idle(p)
    /\ LET hit == {d \in packages : d.TrackingNumber = tn}
           r == [NoReq EXCEPT !.op = "Get", !.tn = tn]
       IN IF hit = {} THEN Reply(p, r, Status(404))
          ELSE LET pkg == FirstOf(hit)
                   pr == WithDefaults(pkg.ID_proof)
               IN IF Falsy(pr.data) THEN Reply(p, r, Status(404))
                  ELSE Reply(p, r, [Status(200) EXCEPT
                            !.record = Serialised(pkg),
                            !.proof = [NoProof EXCEPT !.data = pr.data, !.contentType = pr.contentType]])
    /\ Paired(p, NoRace)
    /\ UNCHANGED <<packages, recipients, nextId, nextRid, issued>>

NoFile == [data |-> "none", mimetype |-> "none", size |-> NoSize]

\* fileUpload.single('file'): the message of the error multer raises, ""
\* when the upload goes through.  The filter sees the file before its size
\* is known.
FileUpload(file) ==
    IF file = NoFile THEN ""
    ELSE IF file.mimetype \notin ProofTypes
    THEN "Only image files (JPEG, PNG, GIF, WebP) and PDF files are allowed!"
    ELSE IF file.size > MaxProofSize THEN "File too large"
    ELSE ""

\* PackageSchema.methods.validateIDProof: "" or the message it throws.
validateIDProof(pr) ==
    IF pr.data \notin {"none", "null", "empty"}
    THEN IF pr.size > MaxProofSize THEN "File size must be less than 5 MB."
         ELSE IF pr.contentType \notin ProofTypes THEN "Invalid file type."
         ELSE ""
    ELSE ""

\* POST /packages/:trackingNumber/ID_Proof.  An error of the upload
\* middleware goes to the error handler; one inside the handler to its own
\* catch.
AttachIDProof(p, tn, file) ==
    /\ Idle(p)
    /\ LET r == [NoReq EXCEPT !.op = "AttachIDProof", !.tn = tn,
                              !.body = [NoBody EXCEPT !.ID_proof =
                                  [data |-> file.data, contentType |-> file.mimetype, size |-> file.size]]]
           u == FindOneAndUpdate(packages, tn, UpdateValid(r.body), r.body, FALSE)
       IN IF FileUpload(file) # ""
          THEN /\ Reply(p, r, [Status(500) EXCEPT !.message = FileUpload(file)])
               /\ packages' = packages
          ELSE IF file = NoFile
          THEN /\ Reply(p, r, [Status(400) EXCEPT !.message = "ID proof file is required."])
               /\ packages' = packages
          ELSE IF u.status = 500
          THEN /\ Reply(p, r, [Status(500) EXCEPT !.message = "Validation failed"])
               /\ packages' = packages
          ELSE IF u.status = 404
          THEN /\ Reply(p, r, [Status(404) EXCEPT !.message = "Package not found."])
               /\ packages' = packages
          ELSE /\ packages' = u.packages
               /\ IF validateIDProof(WithDefaults(u.doc.ID_proof)) # ""
                  THEN Reply(p, r, [Status(500) EXCEPT !.message = validateIDProof(WithDefaults(u.doc.ID_proof))])
                  ELSE Reply(p, r, [Status(200) EXCEPT !.message = "ID proof uploaded successfully"])
    /\ Paired(p, NoRace)
    /\ UNCHANGED <<recipients, nextId, nextRid, issued>>

\* GET /packages/:trackingNumber/ID_Proof
FetchIDProof(p, tn) ==
    /\ Idle(p)
    /\ LET hit == {d \in packages : d.TrackingNumber = tn}
           r == [NoReq EXCEPT !.op = "FetchIDProof", !.tn = tn]
       IN IF hit = {} THEN Reply(p, r, Status(404))
          ELSE LET pr == WithDefaults(FirstOf(hit).ID_proof)
               IN IF Falsy(pr.data) THEN Reply(p, r, Status(404))
                  ELSE Reply(p, r, [Status(200) EXCEPT
                            !.proof = [NoProof EXCEPT !.data = pr.data, !.contentType = pr.contentType]])
    /\ Paired(p, NoRace)
    /\ UNCHANGED <<packages, recipients, nextId, nextRid, issued>>

\* An unset that forgets the contentType and the size.
UnsetProofData(d) == [d EXCEPT !.ID_proof.data = "none"]

\* $unset of ID_proof.data, ID_proof.contentType and ID_proof.size.
UnsetProof(d) == [d EXCEPT !.ID_proof = NoProof]

\* DELETE /packages/:trackingNumber/delete_ID_Proof: findOneAndUpdate with
\* the $unset, no validators.
DeleteIDProof(p, tn) ==
    /\ Idle(p)
    /\ LET hit == {d \in packages : d.TrackingNumber = tn}
           r == [NoReq EXCEPT !.op = "DeleteIDProof", !.tn = tn]
       IN IF hit = {}
          THEN /\ Reply(p, r, Status(404))
               /\ packages' = packages
          ELSE /\ Reply(p, r, Status(200))
               /\ packages' = (packages \ {FirstOf(hit)}) \cup {UnsetProof(FirstOf(hit))}
    /\ Paired(p, NoRace)
    /\ UNCHANGED <<recipients, nextId, nextRid, issued>>

----------------------------------------------------------------------------
(* Requests *)

Contacts == {1234567890, 2000000001}
ClientTNs == {1, 2}
\* RecipientId values a client sends: the _id of the first recipient, and one
\* no recipient ever gets.
RecipientIds == {1, MaxRecips + 1}

Body(tn, st, rid, price) ==
    [TrackingNumber |-> tn, Status |-> st, RecipientId |-> rid, Price |-> price,
     Package_weight |-> 2500, ID_proof |-> NoProof, IncSize |-> 0]
Update(k, obj, f) == [TrackingNumber |-> k, object |-> obj, fieldsToUpdate |-> f]

\* Bodies of POST /packages.
CreateBodies ==
    {Body(tn, "pending", rid, 50000) : tn \in {NoTN, 3}, rid \in RecipientIds}
    \cup {Body(NoTN, "pending", 1, 50250), Body(NoTN, "pending", 1, 0)}
\* Items of add-many and of an imported file.
Items == {Body(NoTN, "pending", rid, 50000) : rid \in RecipientIds}
\* Batches of up to MaxBatch items, and one whose second item the schema rejects.
Batches == SeqsUpTo(Items, MaxBatch) \cup {<<Body(NoTN, "pending", 1, 50000), Body(NoTN, "pending", 1, 50250)>>}
\* Key arrays of POST /packages/delete-many.
KeyArrays == {<<>>, <<1>>, <<2>>, <<1, 2>>, <<2, 2>>, <<1, 1>>}
\* Bodies of PUT /packages/:trackingNumber.
ReplaceBodies == {Body(tn, "delivered", 1, 50000) : tn \in {NoTN, 2}}
PatchStatuses == {"delivered", "not-delivered"}
\* Arrays of POST /packages/update-many.
Updates ==
    LET status == Update(1, TRUE, Body(NoTN, "delivered", 0, NoPrice))
        number == Update(2, TRUE, Body(1, "", 0, NoPrice))
        shapeless == Update(1, FALSE, NoBody)
    IN {<<>>, <<status>>, <<number>>, <<status, number>>, <<number, status>>, <<status, shapeless>>}

\* The single-package routes, update-many and delete-many, served one at a
\* time.
Next ==
    \/ RecipientCreate("r1", 1234567890, MaxRecips)
    \/ RecipientDelete("r1", 1234567890)
    \/ \E b \in CreateBodies : CreateBegin("r1", b)
    \/ CreatePreSave("r1")
    \/ CreateInsert("r1", MaxDocs)
    \/ \E tn \in ClientTNs : Delete("r1", tn)
    \/ \E tn \in ClientTNs, b \in ReplaceBodies : Replace("r1", tn, b)
    \/ \E tn \in ClientTNs, s \in PatchStatuses : PatchStatus("r1", tn, s)
    \/ \E keys \in KeyArrays : DeleteManyBegin("r1", keys)
    \/ DeleteManyDelete("r1")
    \/ \E u \in Updates : UpdateManyBegin("r1", u)
    \/ UpdateManyLoop("r1")

Spec == Init /\ [][Next]_vars

\* The body every interleaved client sends.
ConcBody == Body(NoTN, "pending", 1, 50000)

\* The bulk creation routes, served one at a time, on collections that
\* single creations, deletions and a replacement have shaped.
NextBatch ==
    \/ RecipientCreate("r1", 1234567890, MaxRecips)
    \/ RecipientDelete("r1", 1234567890)
    \/ CreateBegin("r1", ConcBody)
    \/ CreatePreSave("r1")
    \/ CreateInsert("r1", MaxDocs)
    \/ \E tn \in ClientTNs : Delete("r1", tn)
    \/ Replace("r1", 1, Body(NoTN, "pending", 1, 50000))
    \/ \E items \in Batches : AddManyBegin("r1", items)
    \/ AddManyCheck("r1")
    \/ AddManyLast("r1")
    \/ AddManyInsert("r1", MaxDocs)
    \/ \E items \in Batches : ImportBegin("r1", "json", items)
    \/ \E file \in {"none", "garbage"} : ImportBegin("r1", file, <<>>)
    \/ ImportCheck("r1")
    \/ ImportInsert("r1", MaxDocs)
    \/ \E keys \in KeyArrays : DeleteManyBegin("r1", keys)
    \/ DeleteManyDelete("r1")

SpecBatch == Init /\ [][NextBatch]_vars

\* The batches of the interleaved clients.
ConcBatches == {<<ConcBody>>, <<ConcBody, ConcBody>>}

\* Requests of two clients, interleaved at every awaited call.
NextConc ==
    \E p \in Procs :
        \/ RecipientCreate(p, 1234567890, MaxRecips)
        \/ CreateBegin(p, ConcBody)
        \/ CreatePreSave(p)
        \/ CreateInsert(p, MaxDocsConc)
        \/ \E tn \in ClientTNs : Delete(p, tn)
        \/ Replace(p, 1, Body(2, "pending", 1, 50000))
        \/ PatchStatus(p, 1, "delivered")
        \/ \E items \in ConcBatches : AddManyBegin(p, items)
        \/ AddManyCheck(p)
        \/ AddManyLast(p)
        \/ AddManyInsert(p, MaxDocsConc)
        \/ \E items \in ConcBatches : ImportBegin(p, "json", items)
        \/ ImportCheck(p)
        \/ ImportInsert(p, MaxDocsConc)
        \/ \E keys \in {<<1>>, <<1, 2>>} : DeleteManyBegin(p, keys)
        \/ DeleteManyDelete(p)
        \/ UpdateManyBegin(p, <<Update(2, TRUE, Body(1, "", 0, NoPrice)),
                                 Update(1, TRUE, Body(NoTN, "delivered", 0, NoPrice))>>)
        \/ UpdateManyLoop(p)

SpecConc == Init /\ [][NextConc]_vars


\* Creation and deletion of packages alone, served one at a time.
NextAlloc ==
    \/ RecipientCreate("r1", 1234567890, MaxRecips)
    \/ \E b \in {Body(NoTN, "pending", 1, 50000)} : CreateBegin("r1", b)
    \/ CreatePreSave("r1")
    \/ CreateInsert("r1", MaxDocsAlloc)
    \/ \E tn \in 1..MaxDocsAlloc : Delete("r1", tn)
    \/ \E items \in SeqsUpTo({Body(NoTN, "pending", 1, 50000)}, MaxBatch) : AddManyBegin("r1", items)
    \/ AddManyCheck("r1")
    \/ AddManyLast("r1")
    \/ AddManyInsert("r1", MaxDocsAlloc)
    \/ \E keys \in KeyArrays : DeleteManyBegin("r1", keys)
    \/ DeleteManyDelete("r1")

SpecAlloc == Init /\ [][NextAlloc]_vars

\* Single and bulk creation and deletion of two clients, interleaved.
NextBulk ==
    \E p \in Procs :
        \/ RecipientCreate(p, 1234567890, MaxRecips)
        \/ CreateBegin(p, ConcBody)
        \/ CreatePreSave(p)
        \/ CreateInsert(p, MaxDocs)
        \/ Delete(p, 1)
        \/ \E items \in ConcBatches \cup {<<ConcBody, Body(NoTN, "pending", 1, 50250)>>} : AddManyBegin(p, items)
        \/ AddManyCheck(p)
        \/ AddManyLast(p)
        \/ AddManyInsert(p, MaxDocs)

SpecBulk == Init /\ [][NextBulk]_vars

\* The recipient routes alone, served one at a time.
NextRecipients ==
    \/ \E c \in Contacts : RecipientCreate("r1", c, MaxContacts)
    \/ \E c \in Contacts : RecipientDelete("r1", c)
    \/ \E keys \in SeqsUpTo(Contacts, MaxBatch) : RecipientDeleteManyBegin("r1", keys)
    \/ RecipientDeleteManyDelete("r1")

SpecRecipients == Init /\ [][NextRecipients]_vars

\* The two delete-many routes, served one at a time, on collections that
\* creations and a status change have shaped.
NextDeleteMany ==
    \/ \E c \in Contacts : RecipientCreate("r1", c, MaxContacts)
    \/ CreateBegin("r1", ConcBody)
    \/ CreatePreSave("r1")
    \/ CreateInsert("r1", MaxDocs)
    \/ PatchStatus("r1", 1, "delivered")
    \/ \E keys \in KeyArrays : DeleteManyBegin("r1", keys)
    \/ DeleteManyDelete("r1")
    \/ \E keys \in SeqsUpTo(Contacts, MaxBatch) : RecipientDeleteManyBegin("r1", keys)
    \/ RecipientDeleteManyDelete("r1")

SpecDeleteMany == Init /\ [][NextDeleteMany]_vars

\* Arrays of the two update-many routes: updates that pass, updates the
\* schema rejects, and one that renumbers a package.
RecipientUpdate(contact, name) == [RecipientContact |-> contact, RecipientName |-> name]
PackageUpdateArrays ==
    LET ok1 == Update(1, TRUE, Body(NoTN, "delivered", 0, NoPrice))
        ok2 == Update(2, TRUE, Body(NoTN, "in-transit", 0, NoPrice))
        bad1 == Update(1, TRUE, Body(NoTN, "lost", 0, NoPrice))
        bad2 == Update(2, TRUE, Body(NoTN, "pending", 0, 50250))
        number == Update(2, TRUE, Body(1, "", 0, NoPrice))
    IN {<<ok1>>, <<bad1>>, <<ok1, ok2>>, <<ok2, ok2>>, <<ok1, bad2, ok2>>, <<bad1, ok2>>,
        <<number, ok2>>, <<ok1, Update(2, FALSE, NoBody)>>}
RecipientUpdateArrays ==
    LET ok1 == RecipientUpdate(1234567890, "Jane Roe")
        ok2 == RecipientUpdate(2000000001, "Ann Lee")
        bad1 == RecipientUpdate(1234567890, "J4ne")
        bad2 == RecipientUpdate(2000000001, "4nn")
    IN {<<ok1>>, <<bad1>>, <<ok1, ok2>>, <<ok2, ok2>>, <<ok1, bad2, ok2>>, <<bad1, ok2>>,
        <<ok1, RecipientUpdate(0, "Ann Lee")>>}

\* The two update-many routes, served one at a time.
NextUpdateMany ==
    \/ \E c \in Contacts : RecipientCreate("r1", c, MaxContacts)
    \/ CreateBegin("r1", ConcBody)
    \/ CreatePreSave("r1")
    \/ CreateInsert("r1", MaxDocsConc)
    \/ Delete("r1", 1)
    \/ \E u \in PackageUpdateArrays : UpdateManyBegin("r1", u)
    \/ UpdateManyLoop("r1")
    \/ \E u \in RecipientUpdateArrays : RecipientUpdateManyBegin("r1", u)
    \/ RecipientUpdateManyLoop("r1")

SpecUpdateMany == Init /\ [][NextUpdateMany]_vars

\* Requests of the attachment routes.  A file carries its bytes (b1, b2), its
\* mimetype and its size; a body or an update may carry ID_proof sub-fields.
Proof(data, type, size) == [data |-> data, contentType |-> type, size |-> size]
File(data, type, size) == [data |-> data, mimetype |-> type, size |-> size]
Files ==
    {NoFile, File("b1", "image/png", 1024), File("b2", "application/pdf", MaxProofSize),
     File("b1", "image/bmp", 1024), File("b2", "image/png", MaxProofSize + 1)}
ProofBodies ==
    {[ConcBody EXCEPT !.ID_proof = pr] :
        pr \in {NoProof, Proof("null", "none", NoSize), Proof("b1", "image/png", 1024),
                Proof("b1", "image/bmp", 1024), Proof("b1", "image/png", MaxProofSize + 1)}}
ProofReplaceBodies ==
    {[Body(1, "delivered", 1, 50000) EXCEPT !.ID_proof = pr] :
        pr \in {NoProof, Proof("b2", "image/gif", 2048), Proof("b2", "image/bmp", 2048)}}
ProofUpdateArrays ==
    LET set == Update(1, TRUE, [NoBody EXCEPT !.ID_proof = Proof("b2", "image/gif", 2048)])
        type == Update(1, TRUE, [NoBody EXCEPT !.ID_proof = Proof("none", "image/bmp", NoSize)])
        size == Update(2, TRUE, [NoBody EXCEPT !.ID_proof = Proof("none", "none", MaxProofSize + 1)])
        inc == Update(1, TRUE, [NoBody EXCEPT !.IncSize = MaxProofSize])
    IN {<<set>>, <<type>>, <<set, size>>, <<inc>>}

\* The attachment routes and the routes that can write ID_proof, served one
\* at a time.  A $inc is sent while the sizes stored are within the limit.
NextProof ==
    \/ RecipientCreate("r1", 1234567890, MaxRecips)
    \/ \E b \in ProofBodies : CreateBegin("r1", b)
    \/ CreatePreSave("r1")
    \/ CreateInsert("r1", MaxDocsConc)
    \/ \E tn \in ClientTNs : Get("r1", tn)
    \/ \E tn \in ClientTNs, f \in Files : AttachIDProof("r1", tn, f)
    \/ \E tn \in ClientTNs : FetchIDProof("r1", tn)
    \/ \E tn \in ClientTNs : DeleteIDProof("r1", tn)
    \/ \E b \in ProofReplaceBodies : Replace("r1", 1, b)
    \/ /\ \A d \in packages : d.ID_proof.size <= MaxProofSize
       /\ \E u \in ProofUpdateArrays : UpdateManyBegin("r1", u)
    \/ UpdateManyLoop("r1")

SpecProof == Init /\ [][NextProof]_vars

\* Status values clients send: the enum's, the hyphenated spelling, another.
StatusValues == {"pending", "in-transit", "delivered", "not delivered", "not-delivered", "lost"}

\* Creation and PATCH with every Status value, served one at a time.
NextStatus ==
    \/ RecipientCreate("r1", 1234567890, MaxRecips)
    \/ \E s \in StatusValues : CreateBegin("r1", Body(NoTN, s, 1, 50000))
    \/ CreatePreSave("r1")
    \/ CreateInsert("r1", MaxDocsConc)
    \/ \E tn \in ClientTNs, s \in StatusValues : PatchStatus("r1", tn, s)

SpecStatus == Init /\ [][NextStatus]_vars

\* Bodies of the recipient routes: RecipientBody("", ...) misses a field.
RecipientBody(name, email, contact) ==
    [RecipientName |-> name, RecipientEmail |-> email, RecipientContact |-> contact]
RecipientBodies ==
    {RecipientBody("Jane Doe", "jane@example.com", c) : c \in Contacts}
    \cup {RecipientBody("Jane Doe", "invalid-email", 1234567890),
          RecipientBody("Jane Doe", "", 0),
          RecipientBody("", "ann@example.com", 2000000001)}
RecipientPatches ==
    {RecipientBody("", "", c) : c \in Contacts}
    \cup {RecipientBody("Ann Lee", "", 0), RecipientBody("4nn", "", 0)}
RecipientArrays ==
    {<<>>,
     <<RecipientBody("Ann Lee", "ann@example.com", 1234567890),
       RecipientBody("Ann Lee", "ann@example.com", 2000000001)>>,
     <<RecipientBody("Ann Lee", "ann@example.com", 2000000001),
       RecipientBody("Ann Lee", "invalid-email", 2000000001)>>}

\* The recipient routes that write contacts, served one at a time.
NextRecipientWrites ==
    \/ \E b \in RecipientBodies : RecipientPost("r1", b, MaxContacts)
    \/ \E c \in Contacts, u \in RecipientPatches : RecipientPatchBegin("r1", c, u)
    \/ RecipientPatchUpdate("r1")
    \/ \E bs \in RecipientArrays : RecipientAddMany("r1", bs, MaxContacts)
    \/ \E c \in Contacts : RecipientDelete("r1", c)

SpecRecipientWrites == Init /\ [][NextRecipientWrites]_vars

\* Prices and weights clients send, in thousandths: 50, 50.25, 50.5, 0, -50
\* and 2.5, 2.555, 2.55, 0, -2.5.
ClientPrices == {50000, 50250, 50500, 0, -50000}
ClientWeights == {2500, 2555, 2550, 0, -2500}
NumberBodies ==
    {[ConcBody EXCEPT !.Price = v] : v \in ClientPrices}
    \cup {[ConcBody EXCEPT !.Package_weight = w] : w \in ClientWeights}

\* Creation with every price and weight, served one at a time.
NextNumbers ==
    \/ RecipientCreate("r1", 1234567890, MaxRecips)
    \/ RecipientDelete("r1", 1234567890)
    \/ \E b \in NumberBodies : CreateBegin("r1", b)
    \/ CreatePreSave("r1")
    \/ CreateInsert("r1", MaxDocs)
    \/ \E tn \in ClientTNs : Delete("r1", tn)

SpecNumbers == Init /\ [][NextNumbers]_vars

\* Bodies of PATCH /packages/:trackingNumber: Status alone, Status among
\* other fields, an invalid Status, no Status.
PatchBodies ==
    {[NoBody EXCEPT !.Status = "delivered"],
     [NoBody EXCEPT !.Status = "in-transit", !.TrackingNumber = 2, !.Price = 60000, !.RecipientId = 2],
     [NoBody EXCEPT !.Status = "lost", !.Price = 60000],
     [NoBody EXCEPT !.Price = 60000]}

\* PATCH on collections that creations and deletions have shaped, served one
\* at a time.
NextPatch ==
    \/ RecipientCreate("r1", 1234567890, MaxRecips)
    \/ CreateBegin("r1", ConcBody)
    \/ CreatePreSave("r1")
    \/ CreateInsert("r1", MaxDocs)
    \/ \E tn \in ClientTNs : Delete("r1", tn)
    \/ \E tn \in ClientTNs, b \in PatchBodies : Patch("r1", tn, b)

SpecPatch == Init /\ [][NextPatch]_vars

\* Creation interleaved with the deletion of recipients and with
\* delete-many: two handlers in flight, stepping at their awaited calls.
NextRaces ==
    \E p \in Procs :
        \/ RecipientCreate(p, 1234567890, MaxRecips)
        \/ RecipientDelete(p, 1234567890)
        \/ CreateBegin(p, ConcBody)
        \/ CreatePreSave(p)
        \/ CreateInsert(p, MaxDocsConc)
        \/ \E items \in {<<ConcBody>>, <<ConcBody, ConcBody>>} : AddManyBegin(p, items)
        \/ AddManyCheck(p)
        \/ AddManyLast(p)
        \/ AddManyInsert(p, MaxDocsConc)
        \/ \E keys \in {<<1>>, <<1, 2>>} : DeleteManyBegin(p, keys)
        \/ DeleteManyDelete(p)
        \/ RecipientDeleteManyBegin(p, <<1234567890>>)
        \/ RecipientDeleteManyDelete(p)

SpecRaces == Init /\ [][NextRaces]_vars

----------------------------------------------------------------------------
(* Properties *)

Done(p, op) == pc[p] = "done" /\ req[p].op = op

\* The highest TrackingNumber a collection holds, 0 when it holds none.
MaxNumber(pk) ==
    LET ns == {d.TrackingNumber : d \in pk} \ {NoTN}
    IN IF ns = {} THEN 0 ELSE CHOOSE m \in ns : \A n \in ns : n <= m

\* C1: a Create that succeeds with no other request stepping in between
\* stores its package under 1 + the highest TrackingNumber the collection
\* held before it (1 on an empty collection) and answers with that number,
\* whatever TrackingNumber the body carried.
CreateNumbersFromLast ==
    \A p \in Procs :
        (Done(p, "Create") /\ resp[p].status = 201 /\ alone[p]) =>
            /\ resp[p].data = <<MaxNumber(pre[p].packages) + 1>>
            /\ \E d \in packages :
                /\ ins[p] = {d._id}
                /\ d.TrackingNumber = MaxNumber(pre[p].packages) + 1
                /\ packages = pre[p].packages \cup {d}

CreateNumbersFromLastWitness ==
    \E p \in Procs :
        /\ Done(p, "Create") /\ resp[p].status = 201 /\ alone[p]
        /\ req[p].body.TrackingNumber = 3
        /\ pre[p].packages # {}
        /\ resp[p].data = <<2>>

\* C2: in every state, whatever the interleaving of the package requests,
\* no two stored packages carry the same TrackingNumber.
TrackingNumberUnique ==
    \A d, e \in packages : d._id # e._id => d.TrackingNumber # e.TrackingNumber

TrackingNumberUniqueWitness ==
    /\ Cardinality(packages) = 2
    /\ \E p \in Procs : pc[p] = "done" /\ resp[p].status = 500 /\ ~alone[p]
                        /\ req[p].op \in {"Create", "AddMany", "Import", "Replace", "UpdateMany"}

\* C3 as claimed: a newly created package gets a TrackingNumber above every
\* number handed out before it, deleted packages included.
NumbersNeverReused ==
    [][\A d \in packages' : d._id >= nextId => d.TrackingNumber > issued]_vars

\* C3 amended: with requests served in turn, a newly created package gets a
\* TrackingNumber above that of every package stored when it is created.
NumbersAboveStored ==
    [][\A d \in packages' : d._id >= nextId =>
            \A e \in packages : d.TrackingNumber > e.TrackingNumber]_vars

\* A package created under a number that a deleted package had carried.
NumbersAboveStoredWitness ==
    \E p \in Procs :
        /\ pc[p] = "done" /\ req[p].op \in {"Create", "AddMany"} /\ resp[p].status = 201
        /\ pre[p].packages # {}
        /\ \E d \in packages : d._id \in ins[p] /\ d.TrackingNumber < issued

\* C4: no request changes or removes the TrackingNumber of a stored package.
TrackingNumberImmutable ==
    [][\A d \in packages : \A e \in packages' :
            d._id = e._id => e.TrackingNumber = d.TrackingNumber]_vars

\* C5: a bulk creation (add-many or import) of N items that succeeds with no
\* other request stepping in between stores item i under m + i, m the highest
\* TrackingNumber held before it (0 on an empty collection), and nothing else.
BulkNumbersConsecutive ==
    \A p \in Procs :
        (pc[p] = "done" /\ req[p].op \in {"AddMany", "Import"} /\ resp[p].status = 201 /\ alone[p]) =>
            LET m == MaxNumber(pre[p].packages)
                N == Len(req[p].items)
                first == nextId - N
            IN /\ resp[p].data = [i \in 1..N |-> m + i]
               /\ ins[p] = first..(nextId - 1)
               /\ packages \ pre[p].packages =
                    {[_id |-> first + i - 1, TrackingNumber |-> m + i,
                      Status |-> req[p].items[i].Status,
                      RecipientId |-> req[p].items[i].RecipientId,
                      Price |-> req[p].items[i].Price,
                      Package_weight |-> req[p].items[i].Package_weight,
                      ID_proof |-> DefaultProof] : i \in 1..N}
               /\ pre[p].packages \subseteq packages

BulkNumbersConsecutiveWitness ==
    \E p \in Procs :
        /\ pc[p] = "done" /\ req[p].op \in {"AddMany", "Import"} /\ resp[p].status = 201 /\ alone[p]
        /\ Len(req[p].items) = 2
        /\ pre[p].packages # {}
        /\ resp[p].data = <<2, 3>>

\* C6: of two Creates that read the same last TrackingNumber before either
\* inserted, the one that inserts second is rejected: it answers 500 and has
\* stored nothing.
RaceLoserRejected ==
    \A p \in Procs :
        (Done(p, "Create") /\ race[p].won) =>
            /\ resp[p].status = 500
            /\ ins[p] = {}

RaceLoserRejectedWitness ==
    \E p \in Procs : Done(p, "Create") /\ race[p].won /\ resp[p].status = 500 /\ packages # {}

Unresolved(items) ==
    {i \in 1..Len(items) : ~\E r \in recipients : r._id = items[i].RecipientId}

\* C8: a bulk creation with an item whose recipient does not exist answers
\* 404 with the position of the first such item and inserts nothing.
BulkWithoutRecipient ==
    \A p \in Procs :
        (pc[p] = "done" /\ req[p].op \in {"AddMany", "Import"} /\ alone[p]
         /\ Unresolved(req[p].items) # {}) =>
            /\ resp[p].status = 404
            /\ resp[p].index \in Unresolved(req[p].items)
            /\ \A i \in Unresolved(req[p].items) : resp[p].index <= i
            /\ packages = pre[p].packages
            /\ ins[p] = {}

BulkWithoutRecipientWitness ==
    \E p \in Procs :
        /\ pc[p] = "done" /\ req[p].op \in {"AddMany", "Import"} /\ alone[p]
        /\ resp[p].status = 404 /\ resp[p].index = 2
        /\ packages # {}

\* C9: an add-many whose insert step fails answers 500 and has stored none
\* of its items.
BulkAllOrNothing ==
    \A p \in Procs :
        (Done(p, "AddMany") /\ resp[p].status \notin {201, 404}) =>
            /\ resp[p].status = 500
            /\ ins[p] = {}

\* The keys a collection held when a delete-many began.
KeysBefore(p) ==
    IF req[p].op = "DeleteMany" THEN {d.TrackingNumber : d \in pre[p].packages}
    ELSE {r.RecipientContact : r \in pre[p].recipients}

\* C10: an accepted delete-many reports as deletedCount the number of input
\* keys that existed, as notFoundNumbers the input keys that did not, and the
\* two split the input.
DeleteManyReport ==
    \A p \in Procs :
        (pc[p] = "done" /\ req[p].op \in {"DeleteMany", "RecipientDeleteMany"}
         /\ resp[p].status = 200 /\ alone[p]) =>
            LET input == Range(req[p].keys)
                found == input \cap KeysBefore(p)
            IN /\ resp[p].deletedCount = Cardinality(found)
               /\ Range(resp[p].notFoundNumbers) = input \ found

\* C11: a delete-many that got past its input checks, with no other request
\* stepping in between, answers 200 whether or not its keys match; when it
\* returns, no record with a key of the input is left and the records with
\* other keys are as they were, in the collection it works on and in the
\* other one.
DeleteManyFrame ==
    \A p \in Procs :
        (pc[p] = "done" /\ req[p].op \in {"DeleteMany", "RecipientDeleteMany"}
         /\ Len(req[p].keys) > 0 /\ alone[p]) =>
            /\ resp[p].status = 200
            /\ IF req[p].op = "DeleteMany"
               THEN /\ packages = {d \in pre[p].packages :
                                     \A i \in 1..Len(req[p].keys) : d.TrackingNumber # req[p].keys[i]}
                    /\ recipients = pre[p].recipients
               ELSE /\ recipients = {r \in pre[p].recipients :
                                       \A i \in 1..Len(req[p].keys) : r.RecipientContact # req[p].keys[i]}
                    /\ packages = pre[p].packages

\* A package delete-many with a key that matched, a key that did not, and a
\* package that stays.
DeleteManyFrameWitness ==
    \E p \in Procs :
        /\ Done(p, "DeleteMany") /\ alone[p] /\ resp[p].status = 200
        /\ resp[p].deletedCount = 1
        /\ Len(resp[p].notFoundNumbers) > 0
        /\ packages # {}

\* The keys an update-many call found in its collection when it began.
KeysBeforeUpdate(p) ==
    IF req[p].op = "UpdateMany" THEN {d.TrackingNumber : d \in pre[p].packages}
    ELSE {r.RecipientContact : r \in pre[p].recipients}

\* C12: an update-many call answered with 200 reports as not found no key
\* that a record carried before the call, also when a key occurs in several
\* items of the array.
UpdateManyKeysDisjoint ==
    \A p \in Procs :
        (pc[p] = "done" /\ req[p].op \in {"UpdateMany", "RecipientUpdateMany"}
         /\ alone[p] /\ resp[p].status = 200) =>
            \A i \in 1..Len(resp[p].notFoundNumbers) :
                resp[p].notFoundNumbers[i] \notin KeysBeforeUpdate(p)

\* Item i of an update-many array is well formed and the schema rejects /
\* accepts its fields.
ItemRejected(op, item) ==
    IF op = "UpdateMany"
    THEN item.TrackingNumber # 0 /\ item.object /\ ~UpdateValid(item.fieldsToUpdate)
    ELSE item.RecipientName # "" /\ ~NameValid(item.RecipientName)
ItemAccepted(op, item) ==
    IF op = "UpdateMany"
    THEN /\ item.TrackingNumber # 0 /\ item.object /\ UpdateValid(item.fieldsToUpdate)
         /\ item.fieldsToUpdate.TrackingNumber = NoTN
    ELSE item.RecipientName # "" => NameValid(item.RecipientName)

\* The index of the first item the schema rejects, all items before it being
\* accepted; 0 when the array has no such item.
FirstRejected(op, items) ==
    LET ks == {k \in 1..Len(items) :
                  /\ ItemRejected(op, items[k])
                  /\ \A j \in 1..(k - 1) : ItemAccepted(op, items[j])}
    IN IF ks = {} \/ (op = "RecipientUpdateMany" /\ \E i \in 1..Len(items) : items[i].RecipientContact = 0)
       THEN 0 ELSE CHOOSE k \in ks : TRUE

\* The collections after the first n items of an array have been applied in
\* order, each to the first record carrying its key.
RECURSIVE PackagesAfter(_, _, _)
PackagesAfter(pk, items, n) ==
    IF n = 0 THEN pk
    ELSE LET q == PackagesAfter(pk, items, n - 1)
             hit == {d \in q : d.TrackingNumber = items[n].TrackingNumber}
         IN IF hit = {} THEN q
            ELSE (q \ {FirstOf(hit)}) \cup {ApplySet(FirstOf(hit), items[n].fieldsToUpdate)}
RECURSIVE RecipientsAfter(_, _, _)
RecipientsAfter(rc, items, n) ==
    IF n = 0 THEN rc
    ELSE LET q == RecipientsAfter(rc, items, n - 1)
             hit == {r \in q : r.RecipientContact = items[n].RecipientContact}
         IN IF hit = {} \/ items[n].RecipientName = "" THEN q
            ELSE (q \ {FirstOf(hit)}) \cup {[FirstOf(hit) EXCEPT !.RecipientName = items[n].RecipientName]}

\* C13: when item k of an update-many array is the first the schema rejects,
\* the call fails and leaves the collection as items 1..k-1 made it: their
\* updates persisted, item k's record and the records of later items as they
\* were.
UpdateManyNotAtomic ==
    \A p \in Procs :
        (pc[p] = "done" /\ req[p].op \in {"UpdateMany", "RecipientUpdateMany"} /\ alone[p]
         /\ FirstRejected(req[p].op, req[p].items) # 0) =>
            LET k == FirstRejected(req[p].op, req[p].items)
            IN /\ resp[p].status # 200
               /\ packages = IF req[p].op = "UpdateMany"
                             THEN PackagesAfter(pre[p].packages, req[p].items, k - 1)
                             ELSE pre[p].packages
               /\ recipients = IF req[p].op = "RecipientUpdateMany"
                               THEN RecipientsAfter(pre[p].recipients, req[p].items, k - 1)
                               ELSE pre[p].recipients

\* A three-item call whose second item was rejected: package 1 carries the
\* first item's Status, package 2 neither the second item's Price nor the
\* third item's Status.
UpdateManyNotAtomicWitness ==
    \E p \in Procs :
        /\ Done(p, "UpdateMany") /\ alone[p] /\ Len(req[p].items) = 3
        /\ FirstRejected("UpdateMany", req[p].items) = 2
        /\ \E d \in pre[p].packages : d.TrackingNumber = 1 /\ d.Status = "pending"
        /\ \E d \in packages : d.TrackingNumber = 1 /\ d.Status = "delivered"
        /\ \E d \in packages : d.TrackingNumber = 2 /\ d.Status = "pending" /\ d.Price = 50000

\* C14: an update-many call with an item the schema rejects is answered with
\* 400, on the package route and on the recipient route.
UpdateManyRejected400 ==
    \A p \in Procs :
        (pc[p] = "done" /\ req[p].op \in {"UpdateMany", "RecipientUpdateMany"} /\ alone[p]
         /\ FirstRejected(req[p].op, req[p].items) # 0) =>
            resp[p].status = 400

\* C15: a Get that directly follows a successful Create of body F, on the
\* TrackingNumber the Create returned, answers 200 with F's Status, F's
\* RecipientId and F's Price in display format.
CreateGetRoundTrip ==
    [][\A p \in Procs :
          (/\ Done(p, "Create") /\ resp[p].status = 201
           /\ pc'[p] = "done" /\ req'[p].op = "Get" /\ req'[p].tn = resp[p].data[1]) =>
              /\ resp'[p].status = 200
              /\ resp'[p].record = [Status |-> req[p].body.Status,
                                    RecipientId |-> <<"id", req[p].body.RecipientId>>,
                                    Price |-> PriceDisplay(req[p].body.Price)]]_vars

\* C16: a Get is answered with 404 exactly when the collection holds no
\* package with the TrackingNumber asked for, whatever the package's ID_proof.
GetFoundIffStored ==
    \A p \in Procs :
        Done(p, "Get") =>
            (resp[p].status = 404 <=> \A d \in packages : d.TrackingNumber # req[p].tn)

\* C17: DeleteIDProof answers 404 and changes nothing when no package has the
\* TrackingNumber; otherwise it answers 200 and leaves the package with its
\* three ID_proof sub-fields removed and every other field as it was; called
\* again directly after a success, it succeeds again and changes nothing.
DeleteIDProofIdempotent ==
    [][\A p \in Procs :
          (Idle(p) /\ pc'[p] = "done" /\ req'[p].op = "DeleteIDProof" /\ pre'[p].packages = packages) =>
              LET hit == {d \in packages : d.TrackingNumber = req'[p].tn}
              IN /\ hit = {} => resp'[p].status = 404 /\ packages' = packages
                 /\ hit # {} =>
                       /\ resp'[p].status = 200
                       /\ \E d \in hit :
                             packages' = (packages \ {d}) \cup
                                 {[_id |-> d._id, TrackingNumber |-> d.TrackingNumber,
                                   Status |-> d.Status, RecipientId |-> d.RecipientId,
                                   Price |-> d.Price, Package_weight |-> d.Package_weight,
                                   ID_proof |-> NoProof]}
                 /\ (Done(p, "DeleteIDProof") /\ resp[p].status = 200 /\ req[p].tn = req'[p].tn) =>
                       resp'[p].status = 200 /\ packages' = packages]_vars

\* A second DeleteIDProof on a package that went through: the collection is
\* as the first call left it, the package without ID_proof sub-fields.
DeleteIDProofIdempotentWitness ==
    \E p \in Procs :
        /\ Done(p, "DeleteIDProof") /\ resp[p].status = 200 /\ pre[p].packages = packages
        /\ \E d \in packages :
              d.TrackingNumber = req[p].tn /\ d.ID_proof = NoProof /\ d.Status = "delivered"

\* C18: a FetchIDProof that directly follows, on the same package, a
\* successful AttachIDProof returns the bytes and the content type attached;
\* one that follows a successful DeleteIDProof, or the Create of a package
\* without ID proof, is answered with 404.
AttachmentLifecycle ==
    [][\A p \in Procs :
          (/\ pc[p] = "done" /\ pc'[p] = "done" /\ req'[p].op = "FetchIDProof"
           /\ req[p].op # "FetchIDProof") =>
              /\ (req[p].op = "AttachIDProof" /\ resp[p].status = 200 /\ req[p].tn = req'[p].tn) =>
                    /\ resp'[p].status = 200
                    /\ resp'[p].proof.data = req[p].body.ID_proof.data
                    /\ resp'[p].proof.contentType = req[p].body.ID_proof.contentType
              /\ (req[p].op = "DeleteIDProof" /\ resp[p].status = 200 /\ req[p].tn = req'[p].tn) =>
                    resp'[p].status = 404
              /\ (req[p].op = "Create" /\ resp[p].status = 201 /\ req[p].body.ID_proof = NoProof
                  /\ resp[p].data[1] = req'[p].tn) =>
                    resp'[p].status = 404]_vars

\* C19: every stored package that carries ID proof bytes has a size of at
\* most 5 MiB and a contentType of the enum.
AttachmentPolicy ==
    \A d \in packages :
        d.ID_proof.data \in {"b1", "b2"} =>
            /\ WithDefaults(d.ID_proof).size <= 5 * 1024 * 1024
            /\ WithDefaults(d.ID_proof).contentType \in
                  {"image/jpeg", "image/png", "image/gif", "image/webp", "application/pdf"}

\* C20: an AttachIDProof whose file is over 5 MiB or of a type outside the
\* enum is answered with a 4xx status, with a size message for the oversized
\* file and another message for the wrong type.
AttachRejectedAsClientError ==
    \A p \in Procs :
        Done(p, "AttachIDProof") =>
            LET file == req[p].body.ID_proof
                sizeMessages == {"File too large", "File size must be less than 5 MB."}
            IN /\ (file.size > 5 * 1024 * 1024 /\ file.contentType \in ProofTypes) =>
                     resp[p].status \in 400..499 /\ resp[p].message \in sizeMessages
               /\ (file.contentType # "none" /\ file.contentType \notin ProofTypes) =>
                     /\ resp[p].status \in 400..499
                     /\ resp[p].message \notin sizeMessages \cup {""}

\* A Create of an otherwise valid body, or a PatchStatus of a stored package,
\* has come back: it went through exactly when its Status is in `allowed`.
StatusAcceptedExactly(allowed) ==
    \A p \in Procs :
        /\ (Done(p, "Create") /\ alone[p] /\ req[p].body.Price = 50000
            /\ \E r \in pre[p].recipients : r._id = req[p].body.RecipientId) =>
               (resp[p].status = 201 <=> req[p].body.Status \in allowed)
        /\ (Done(p, "PatchStatus") /\ alone[p]
            /\ \E d \in pre[p].packages : d.TrackingNumber = req[p].tn) =>
               (resp[p].status = 200 <=> req[p].body.Status \in allowed)

RecipientCreateRejected400 ==
    \A p \in Procs :
        (Done(p, "RecipientPost") /\ alone[p]
         /\ LET b == req[p].items[1]
            IN \/ b.RecipientName = "" \/ b.RecipientEmail = "" \/ b.RecipientContact = 0
               \/ b.RecipientEmail = "invalid-email") =>
            resp[p].status = 400 /\ recipients = pre[p].recipients

\* C23: a PATCH served alone whose body carries a RecipientContact other
\* than the one in the path and held by a stored recipient is answered with
\* 400 and changes nothing; one whose new contact is the path's own, or is
\* held by no recipient, is not answered with 400.
PatchContactCollision ==
    \A p \in Procs :
        (Done(p, "RecipientPatch") /\ alone[p] /\ req[p].items[1].RecipientContact # 0) =>
            LET new == req[p].items[1].RecipientContact
                held == \E r \in pre[p].recipients : r.RecipientContact = new
            IN IF held /\ new # req[p].tn
               THEN resp[p].status = 400 /\ recipients = pre[p].recipients
               ELSE resp[p].status # 400

\* On a collection of two recipients with different contacts, a PATCH of
\* one to the other's contact was rejected.
PatchContactCollisionWitness ==
    \E p \in Procs :
        /\ Done(p, "RecipientPatch") /\ alone[p] /\ resp[p].status = 400
        /\ Cardinality(recipients) = 2
        /\ \E a \in recipients, b \in recipients :
              /\ a.RecipientContact = req[p].tn
              /\ b.RecipientContact = req[p].items[1].RecipientContact
              /\ a.RecipientContact # b.RecipientContact

\* C28: no two stored recipients hold the same RecipientContact.
ContactUnique ==
    \A a \in recipients, b \in recipients :
        a.RecipientContact = b.RecipientContact => a = b

\* A Create served alone has come back, and nothing but the field under test
\* can have made it fail: its recipient was stored and its Status is valid.
CreateAnswered(p) ==
    /\ Done(p, "Create") /\ alone[p]
    /\ req[p].body.Status \in StatusEnum
    /\ \E r \in pre[p].recipients : r._id = req[p].body.RecipientId

\* C24: a Create whose Price is greater than 0 with at most two fraction
\* digits is accepted and stored; one whose Price is zero or negative is
\* rejected and stores nothing.
PriceTwoDecimalsAccepted ==
    \A p \in Procs :
        (CreateAnswered(p) /\ req[p].body.Package_weight = 2500) =>
            LET v == req[p].body.Price
            IN /\ (v > 0 /\ v % 10 = 0) => resp[p].status = 201
               /\ v <= 0 => resp[p].status # 201 /\ packages = pre[p].packages

\* C25: a Create whose Package_weight is greater than 0 with at most two
\* fraction digits is accepted and stored; one whose weight is not greater
\* than 0 or has more than two fraction digits is rejected and stores nothing.
WeightTwoDecimalsOnly ==
    \A p \in Procs :
        (CreateAnswered(p) /\ req[p].body.Price = 50000) =>
            LET w == req[p].body.Package_weight
            IN IF w > 0 /\ w % 10 = 0
               THEN resp[p].status = 201
               ELSE resp[p].status # 201 /\ packages = pre[p].packages

\* The collection after a PATCH served alone: as before it, but for the
\* Status of one package that carried the TrackingNumber.
OnlyStatusChanged(p) ==
    LET hit == {d \in pre[p].packages : d.TrackingNumber = req[p].tn}
    IN IF hit = {} THEN packages = pre[p].packages
       ELSE \E d \in hit : \E st \in StatusEnum :
               packages = (pre[p].packages \ {d}) \cup {[d EXCEPT !.Status = st]}

\* C26 as stated: a PATCH changes at most the Status of the matched package,
\* and with no package matched it is answered with 404.
PatchStatusFrameOr404 ==
    \A p \in Procs :
        (Done(p, "PatchStatus") /\ alone[p]) =>
            /\ OnlyStatusChanged(p)
            /\ (\A d \in pre[p].packages : d.TrackingNumber # req[p].tn) => resp[p].status = 404

\* C26: a PATCH changes at most the Status of the matched package, whatever
\* else its body carries; with no package matched it changes nothing, and it
\* is answered with 404 when its Status passes the enum validation or is
\* absent.
PatchStatusFrame ==
    \A p \in Procs :
        (Done(p, "PatchStatus") /\ alone[p]) =>
            /\ OnlyStatusChanged(p)
            /\ resp[p].status = 200 =>
                  \A d \in packages :
                      (d.TrackingNumber = req[p].tn /\ req[p].body.Status # "") =>
                          d.Status = req[p].body.Status
            /\ ((\A d \in pre[p].packages : d.TrackingNumber # req[p].tn)
                /\ req[p].body.Status \in StatusEnum \cup {""}) => resp[p].status = 404

\* A PATCH whose body carried a TrackingNumber, a Price and a RecipientId
\* beside the Status changed the Status of package 1, beside package 2.
PatchStatusFrameWitness ==
    \E p \in Procs :
        /\ Done(p, "PatchStatus") /\ alone[p] /\ resp[p].status = 200
        /\ req[p].body.Price = 60000 /\ req[p].body.Status = "in-transit" /\ req[p].tn = 1
        /\ \E d \in packages : d.TrackingNumber = 1 /\ d.Status = "in-transit" /\ d.Price = 50000
        /\ \E d \in packages : d.TrackingNumber = 2

\* Item k of a package update-many array lacks a TrackingNumber or a
\* fieldsToUpdate object, and every item before it is well formed and accepted.
FirstMalformed(items) ==
    LET ks == {k \in 1..Len(items) :
                  /\ items[k].TrackingNumber = 0 \/ ~items[k].object
                  /\ \A j \in 1..(k - 1) : ItemAccepted("UpdateMany", items[j])}
    IN IF ks = {} THEN 0 ELSE CHOOSE k \in ks : TRUE

\* C29: a recipient update-many with an item whose RecipientContact is not a
\* number is answered with 400 and changes nothing; a package update-many
\* whose item k is malformed is answered with 400 and leaves the collection
\* as items 1..k-1 made it.
MalformedItemByEntity ==
    \A p \in Procs :
        /\ (Done(p, "RecipientUpdateMany") /\ alone[p]
            /\ \E i \in 1..Len(req[p].items) : req[p].items[i].RecipientContact = 0) =>
               /\ resp[p].status = 400
               /\ recipients = pre[p].recipients
        /\ (Done(p, "UpdateMany") /\ alone[p] /\ FirstMalformed(req[p].items) # 0) =>
               /\ resp[p].status = 400
               /\ packages = PackagesAfter(pre[p].packages, req[p].items,
                                           FirstMalformed(req[p].items) - 1)

\* A package call answered with 400 on its second item, the first item's
\* Status persisted; the recipient call with the same shape changes nothing.
MalformedItemByEntityWitness ==
    \E p \in Procs :
        /\ Done(p, "UpdateMany") /\ alone[p] /\ resp[p].status = 400
        /\ FirstMalformed(req[p].items) = 2
        /\ \E d \in pre[p].packages : d.TrackingNumber = 1 /\ d.Status = "pending"
        /\ \E d \in packages : d.TrackingNumber = 1 /\ d.Status = "delivered"

\* C27: when a Create or an add-many has just inserted its packages, the
\* recipient each of them names is stored.
InsertedWithRecipient ==
    \A p \in Procs :
        (pc[p] = "done" /\ req[p].op \in {"Create", "AddMany"} /\ resp[p].status = 201) =>
            \A d \in packages :
                d._id \in ins[p] => \E r \in recipients : r._id = d.RecipientId

\* C30: the step that deletes for a delete-many call and answers it lists
\* none of the keys it deletes in notFoundNumbers, and its deletedCount plus
\* the number of distinct keys in notFoundNumbers is the number of distinct
\* input keys.
DeleteManyReportUnderRaces ==
    [][\A p \in Procs :
          (pc[p] \in {"dm_delete", "rdm_delete"} /\ pc'[p] = "done") =>
              LET deleted == IF pc[p] = "dm_delete"
                             THEN {d.TrackingNumber : d \in packages \ packages'}
                             ELSE {r.RecipientContact : r \in recipients \ recipients'}
              IN /\ resp'[p].status = 200
                 /\ deleted \cap Range(resp'[p].notFoundNumbers) = {}
                 /\ resp'[p].deletedCount + Cardinality(Range(resp'[p].notFoundNumbers))
                       = Cardinality(Range(req[p].keys))]_vars

====
